---- MODULE Spec2Model ----
(***************************************************************************)
(* A model of mini-tokio (tutorial-code/mini-tokio/src/main.rs): a         *)
(* single-threaded executor draining a channel of task harnesses, the     *)
(* free function spawn that looks the executor up in a thread-local, and   *)
(* the Delay leaf future whose timer thread wakes the task on expiry.      *)
(*                                                                         *)
(* Threads: "main" (spawns the initial tasks, then runs the executor      *)
(* loop), one timer thread per Delay, and "other", a thread that never    *)
(* entered run().  The clock is a free-running monotonic counter: any     *)
(* thread may be preempted for any number of ticks between two steps.     *)
(* One time unit stands for 100ms.                                         *)
(***************************************************************************)
EXTENDS Naturals, Sequences, FiniteSets

VARIABLES
    script,     \* main: the futures still to be handed to mini_tokio.spawn
    mainPc,     \* main: "spawning" (before run()), "loop" (inside run()) or
                \* "returned" (run() returned)
    proc,       \* the process: "running", "exited" (process::exit), "panicked"
    panic,      \* why the main thread panicked: "" while it has not
    current,    \* the CURRENT thread-local of each thread: TRUE = Some(sender)
    other,      \* the thread that never ran an executor: "idle", "done", "panicked"
    tasks,      \* the Arc<Task> harnesses ever allocated, by task id
    queue,      \* the scheduled channel: task ids in send order
    running,    \* the task the loop is inside Task::poll of, or 0
    delays,     \* the Delay futures ever constructed, with their timer threads
    now,        \* Instant::now()
    pollLog,    \* history: the task ids received by the loop, in order
    sent,       \* history: the task ids sent on the channel, in send order
    out         \* history: what the process printed, and "exit" when it exited

vars == <<script, mainPc, proc, panic, current, other, tasks, queue, running,
          delays, now, pollLog, sent, out>>

(***************************************************************************)
(* Bounds and program constants                                            *)
(***************************************************************************)
MaxDur == 2         \* the root's first child sleeps for any of 0..MaxDur
MaxSpawns == 2      \* at most this many mini_tokio.spawn calls before run()
WorldDelay == 1     \* delay(Duration::from_millis(100)) of the "world" task
ExitDelay == 2      \* delay(Duration::from_millis(200)) before process::exit

Threads == {"main", "other"}

(***************************************************************************)
(* Task bodies: an async block is the sequence of its statements.          *)
(***************************************************************************)
SpawnOp(body) == [op |-> "spawn", dur |-> 0, m |-> "", child |-> body]
DelayOp(d) == [op |-> "delay", dur |-> d, m |-> "", child |-> <<>>]
EmitOp(s) == [op |-> "emit", dur |-> 0, m |-> s, child |-> <<>>]
ExitOp == [op |-> "exit", dur |-> 0, m |-> "", child |-> <<>>]
PollOnceOp(d) == [op |-> "poll_once", dur |-> d, m |-> "", child |-> <<>>]
TakeOp == [op |-> "take", dur |-> 0, m |-> "", child |-> <<>>]

\* async { delay(t1).await; println!("world"); }
World(t1) == <<DelayOp(t1), EmitOp("world")>>
\* async { println!("hello"); }
Hello == <<EmitOp("hello")>>
\* the root task of main, with the first child's duration a parameter
Root(t1) == <<SpawnOp(World(t1)), SpawnOp(Hello), DelayOp(ExitDelay), ExitOp>>
\* the root task exactly as main spawns it
MainRoot == Root(WorldDelay)
\* async { delay(0).await; delay(d).await; }
Naps(d) == <<DelayOp(0), DelayOp(d)>>

\* async { std::process::exit(0); }
Quit == <<ExitOp>>

\* A Delay future may move to another task between two polls (the comment of
\* Delay::poll).  Mover polls a boxed delay(WorldDelay) once and, when that
\* poll is Pending, hands the box over; Taker awaits the box if there is one.
\* async { let mut f = Box::pin(delay(d)); if poll!(&mut f).is_pending() { tx.send(f) } }
Mover == <<PollOnceOp(WorldDelay)>>
\* async { if let Ok(f) = rx.try_recv() { f.await }; println!("world"); }
Taker == <<TakeOp, EmitOp("world")>>

\* the futures handed to mini_tokio.spawn before run(): the root task of main
\* with any first-child duration, a task awaiting two delays in a row, a
\* delay handed from one task to another, or up to MaxSpawns simple futures
Bodies == {World(0), World(WorldDelay), Hello, Quit}

Scripts ==
    {<<Root(t1)>> : t1 \in 0..MaxDur} \cup {<<Naps(d)>> : d \in 1..MaxDur} \cup
    {<<Mover, Taker>>} \cup
    UNION {[1..n -> Bodies] : n \in 1..MaxSpawns}

(***************************************************************************)
(* Pure helpers                                                            *)
(***************************************************************************)
\* Task { future: Mutex::new(Box::pin(future)), executor: sender.clone() };
\* src and born are history: the thread (or "mini_tokio") that spawned the
\* task and how many entries the loop had received by then
NewTask(body, src) ==
    [body |-> body, pc |-> 1, at |-> "op", done |-> FALSE, locked |-> FALSE,
     delay |-> 0, src |-> src, born |-> Len(pollLog)]

\* a spawn that puts the new harness at the head of the queue
TaskSpawnFront(ts, q, body, src) ==
    [panic |-> FALSE,
     tasks |-> Append(ts, NewTask(body, src)),
     queue |-> <<Len(ts) + 1>> \o q]

\* a spawn that sends the new harness twice
TaskSpawnResend(ts, q, body, src) ==
    [panic |-> FALSE,
     tasks |-> Append(ts, NewTask(body, src)),
     queue |-> Append(Append(q, Len(ts) + 1), Len(ts) + 1)]

\* Task::spawn: allocate the harness and send it on the channel.
TaskSpawn(ts, q, body, src) ==
    [panic |-> FALSE,
     tasks |-> Append(ts, NewTask(body, src)),
     queue |-> Append(q, Len(ts) + 1)]

\* a spawn that reads a registration shared by every thread
SpawnFreeGlobal(thread, ts, q, body) ==
    IF current["main"]
        THEN TaskSpawn(ts, q, body, thread)
        ELSE [panic |-> TRUE, tasks |-> ts, queue |-> q]

\* spawn: CURRENT.with(|cell| cell.borrow().as_ref().unwrap()) then Task::spawn.
SpawnFree(thread, ts, q, body) ==
    IF current[thread]
        THEN TaskSpawn(ts, q, body, thread)
        ELSE [panic |-> TRUE, tasks |-> ts, queue |-> q]

\* a wake that jumps the queue
WakeFront(q, t) == <<t>> \o q

\* a wake that is dropped while the loop is polling a task
WakeUnlessBusy(q, t) == IF running # 0 THEN q ELSE Append(q, t)

\* a wake that is dropped when the task is already queued
WakeDedup(q, t) == IF \E i \in 1..Len(q) : q[i] = t THEN q ELSE Append(q, t)

\* ArcWake::wake_by_ref: send the task on its executor's channel.
WakeByRef(q, t) == Append(q, t)

\* a receive that takes the newest entry
RecvLast(q) == [task |-> q[Len(q)], rest |-> SubSeq(q, 1, Len(q) - 1)]

\* self.scheduled.recv() on a non-empty channel: the oldest entry
Recv(q) == [task |-> Head(q), rest |-> Tail(q)]

\* a deadline that forgets the duration
DeadlineNoDur(t, dur) == t

\* Instant::now() + dur
Deadline(t, dur) == t + dur

\* a Task::poll that returns without releasing the future
PollReturnLeak(ts, t) == ts

\* Task::poll returns: the guard of self.future is dropped
PollReturn(ts, t) == [ts EXCEPT ![t].locked = FALSE]

\* a comparison that takes any two wakers for the same
WillWakeAlways(stored, cx) == TRUE

\* Waker::will_wake for two wakers made by task::waker from Arc<Task>s.
WillWake(stored, cx) == stored = cx

\* a readiness test that misses the deadline instant itself
DelayReadyStrict(t, when) == t > when

\* Instant::now() >= self.when
DelayReady(t, when) == t >= when

\* Delay { when, waker: None }; dur, pendings, pender, ready, wakes and woke
\* are history: the duration asked for, how often poll returned Pending and to
\* which task, whether it returned Ready, how often the timer thread invoked
\* a waker and whose; polls, poller and launched are history too: how often
\* poll was entered, by which task last, and how many timer threads were
\* spawned; box says whether the future was handed over ("no", "sent",
\* "taken"); slot is history: the place in the send order of the entry the
\* timer thread's wake made, 0 before
NewDelay(t, dur) ==
    [when |-> Deadline(t, dur), waker |-> 0, lock |-> "free", thread |-> "none",
     dur |-> dur, pendings |-> 0, pender |-> 0, ready |-> FALSE,
     wakes |-> 0, woke |-> 0, polls |-> 0, poller |-> 0, launched |-> 0,
     box |-> "no", slot |-> 0]

Max(a, b) == IF a >= b THEN a ELSE b

RECURSIVE MaxWhen(_)
MaxWhen(ds) == IF ds = <<>> THEN 0 ELSE Max(Head(ds).when, MaxWhen(Tail(ds)))

\* The clock is followed up to the latest deadline any Delay has: every test
\* of the clock compares it with a deadline, so later instants add nothing.
Horizon == MaxWhen(delays)

Alive == proc = "running"

\* the Delay value still exists: a task is awaiting it or it sits in the box
DelayHeld(d) ==
    \/ delays[d].box = "sent"
    \/ \E t \in 1..Len(tasks) : tasks[t].delay = d

\* the Arc<Task>s still referenced: by the loop, by a channel entry, or by a
\* stored waker that a Delay or its timer thread still holds
LiveTasks ==
    {t \in 1..Len(tasks) :
        \/ t = running
        \/ \E i \in 1..Len(queue) : queue[i] = t
        \/ \E d \in 1..Len(delays) :
              /\ delays[d].waker = t
              /\ delays[d].thread \in {"spawned", "awake", "locked"} \/ DelayHeld(d)}

\* a count that leaves out the handles run() keeps alive
SendersOfTasksOnly == Cardinality(LiveTasks)

\* the live Sender handles of the channel: MiniTokio.sender, the clone in
\* CURRENT once run() has stored it, and Task.executor of every live task
Senders ==
    1 + (IF current["main"] THEN 1 ELSE 0) + Cardinality(LiveTasks)

\* a receive that gives up as soon as the channel is empty
RecvFailsWhenEmpty(q, n) == q = <<>>

\* self.scheduled.recv() is Err: the channel is empty and every Sender dropped
RecvFails(q, n) == q = <<>> /\ n = 0

(***************************************************************************)
(* Initial state: after MiniTokio::new(), before the first spawn.          *)
(***************************************************************************)
Init ==
    /\ script \in Scripts
    /\ mainPc = "spawning"
    /\ proc = "running"
    /\ panic = ""
    /\ current = [th \in Threads |-> FALSE]
    /\ other = "idle"
    /\ tasks = <<>>
    /\ queue = <<>>
    /\ running = 0
    /\ delays = <<>>
    /\ now = 0
    /\ pollLog = <<>>
    /\ sent = <<>>
    /\ out = <<>>

(***************************************************************************)
(* The main thread                                                         *)
(***************************************************************************)
\* mini_tokio.spawn(future)
MainSpawn ==
    /\ Alive /\ mainPc = "spawning" /\ script # <<>>
    /\ LET r == TaskSpawn(tasks, queue, Head(script), "mini_tokio") IN
        /\ tasks' = r.tasks
        /\ queue' = r.queue
    /\ sent' = Append(sent, Len(tasks) + 1)
    /\ script' = Tail(script)
    /\ UNCHANGED <<mainPc, proc, panic, current, other, running, delays, now, pollLog, out>>

\* mini_tokio.run(): register the sender in CURRENT, enter the loop
RunStart ==
    /\ Alive /\ mainPc = "spawning" /\ script = <<>>
    /\ current' = [current EXCEPT !["main"] = TRUE]
    /\ mainPc' = "loop"
    /\ UNCHANGED <<script, proc, panic, other, tasks, queue, running, delays, now, pollLog, sent, out>>

\* while let Ok(task) = self.scheduled.recv() { task.poll(); }: recv blocks
\* while the channel is empty and a Sender is alive, and ends the loop when
\* it fails.  When it returned a task: Task::poll up to the poll of the
\* future: try_lock().unwrap() panics when the future is locked, and an async
\* block polled after it returned Ready panics.
RunRecv ==
    /\ Alive /\ mainPc = "loop" /\ running = 0
    /\ IF RecvFails(queue, Senders)
          THEN /\ mainPc' = "returned"
               /\ UNCHANGED <<queue, pollLog, proc, panic, tasks, running>>
          ELSE /\ queue # <<>>
               /\ LET t == Recv(queue).task IN
                    /\ queue' = Recv(queue).rest
                    /\ pollLog' = Append(pollLog, t)
                    /\ IF tasks[t].locked \/ tasks[t].done
                          THEN /\ proc' = "panicked"
                               /\ panic' = IF tasks[t].locked THEN "try_lock"
                                                              ELSE "resumed"
                               /\ UNCHANGED <<tasks, running>>
                          ELSE /\ tasks' = [tasks EXCEPT ![t].locked = TRUE]
                               /\ running' = t
                               /\ UNCHANGED <<proc, panic>>
               /\ UNCHANGED mainPc
    /\ UNCHANGED <<script, current, other, delays, now, sent, out>>

Op(t) == tasks[t].body[tasks[t].pc]

AtOp(t, o) ==
    /\ Alive /\ running = t /\ t # 0
    /\ tasks[t].at = "op"
    /\ tasks[t].pc <= Len(tasks[t].body)
    /\ Op(t).op = o

\* spawn(async { ... }) inside a task
StepSpawn ==
    /\ AtOp(running, "spawn")
    /\ LET t == running
           r == SpawnFree("main", tasks, queue, Op(t).child) IN
        IF r.panic
            THEN /\ proc' = "panicked"
                 /\ panic' = "no_current"
                 /\ UNCHANGED <<tasks, queue, sent>>
            ELSE /\ tasks' = [r.tasks EXCEPT ![t].pc = @ + 1]
                 /\ queue' = r.queue
                 /\ sent' = Append(sent, Len(tasks) + 1)
                 /\ UNCHANGED <<proc, panic>>
    /\ UNCHANGED <<script, mainPc, current, other, running, delays, now, pollLog, out>>

\* println!(...)
StepEmit ==
    /\ AtOp(running, "emit")
    /\ out' = Append(out, Op(running).m)
    /\ tasks' = [tasks EXCEPT ![running].pc = @ + 1]
    /\ UNCHANGED <<script, mainPc, proc, panic, current, other, queue, running, delays, now, pollLog, sent>>

\* std::process::exit(0)
StepExit ==
    /\ AtOp(running, "exit")
    /\ proc' = "exited"
    /\ out' = Append(out, "exit")
    /\ UNCHANGED <<script, mainPc, panic, current, other, tasks, queue, running, delays, now, pollLog, sent>>

\* a loop that puts a task back on the queue when its poll has returned
StepFinishRequeue ==
    /\ Alive /\ running # 0
    /\ tasks[running].at = "op"
    /\ tasks[running].pc > Len(tasks[running].body)
    /\ tasks' = PollReturn([tasks EXCEPT ![running].done = TRUE], running)
    /\ queue' = Append(queue, running)
    /\ sent' = Append(sent, running)
    /\ running' = 0
    /\ UNCHANGED <<script, mainPc, proc, panic, current, other, delays, now, pollLog, out>>

\* the async block ran to its end: Poll::Ready, Task::poll returns
StepFinish ==
    /\ Alive /\ running # 0
    /\ tasks[running].at = "op"
    /\ tasks[running].pc > Len(tasks[running].body)
    /\ tasks' = PollReturn([tasks EXCEPT ![running].done = TRUE], running)
    /\ running' = 0
    /\ UNCHANGED <<script, mainPc, proc, panic, current, other, queue, delays, now, pollLog, sent, out>>

(***************************************************************************)
(* delay(dur) and Delay::poll, run by the loop's thread                    *)
(***************************************************************************)
\* Delay { when: Instant::now() + dur, waker: None }
StepDelayNew ==
    /\ AtOp(running, "delay") \/ AtOp(running, "poll_once")
    /\ delays' = Append(delays, NewDelay(now, Op(running).dur))
    /\ tasks' = [tasks EXCEPT ![running].delay = Len(delays) + 1,
                              ![running].at = "poll"]
    /\ UNCHANGED <<script, mainPc, proc, panic, current, other, queue, running, now, pollLog, sent, out>>

AtDelay(t, at) ==
    /\ Alive /\ running = t /\ t # 0
    /\ tasks[t].at = at

\* a first poll that spawns the timer thread only when the deadline is ahead
StepDelayFirstLazy ==
    /\ AtDelay(running, "poll")
    /\ LET d == tasks[running].delay
           due == DelayReady(now, delays[d].when) IN
        /\ delays[d].waker = 0
        /\ delays' = [delays EXCEPT ![d].waker = running,
                                    ![d].thread = IF due THEN "none" ELSE "spawned",
                                    ![d].launched = IF due THEN @ ELSE @ + 1,
                                    ![d].polls = @ + 1,
                                    ![d].poller = running]
    /\ tasks' = [tasks EXCEPT ![running].at = "check"]
    /\ UNCHANGED <<script, mainPc, proc, panic, current, other, queue, running, now, pollLog, sent, out>>

\* first poll: store the waker, spawn the timer thread
StepDelayFirst ==
    /\ AtDelay(running, "poll")
    /\ LET d == tasks[running].delay IN
        /\ delays[d].waker = 0
        /\ delays' = [delays EXCEPT ![d].waker = running,
                                    ![d].thread = "spawned",
                                    ![d].launched = @ + 1,
                                    ![d].polls = @ + 1,
                                    ![d].poller = running]
    /\ tasks' = [tasks EXCEPT ![running].at = "check"]
    /\ UNCHANGED <<script, mainPc, proc, panic, current, other, queue, running, now, pollLog, sent, out>>

\* a later poll that spawns a timer thread of its own
StepDelayLockRespawn ==
    /\ AtDelay(running, "poll")
    /\ LET d == tasks[running].delay IN
        /\ delays[d].waker # 0
        /\ delays[d].lock = "free"
        /\ delays' = [delays EXCEPT ![d].lock = "poll",
                                    ![d].thread = "spawned",
                                    ![d].launched = @ + 1,
                                    ![d].polls = @ + 1,
                                    ![d].poller = running]
    /\ tasks' = [tasks EXCEPT ![running].at = "locked"]
    /\ UNCHANGED <<script, mainPc, proc, panic, current, other, queue, running, now, pollLog, sent, out>>

\* later polls: waker.lock().unwrap()
StepDelayLock ==
    /\ AtDelay(running, "poll")
    /\ LET d == tasks[running].delay IN
        /\ delays[d].waker # 0
        /\ delays[d].lock = "free"
        /\ delays' = [delays EXCEPT ![d].lock = "poll",
                                    ![d].polls = @ + 1,
                                    ![d].poller = running]
    /\ tasks' = [tasks EXCEPT ![running].at = "locked"]
    /\ UNCHANGED <<script, mainPc, proc, panic, current, other, queue, running, now, pollLog, sent, out>>

\* if !waker.will_wake(cx.waker()) { *waker = cx.waker().clone(); }, unlock
StepDelayCompare ==
    /\ AtDelay(running, "locked")
    /\ LET d == tasks[running].delay IN
        delays' = [delays EXCEPT
            ![d].waker = IF WillWake(@, running) THEN @ ELSE running,
            ![d].lock = "free"]
    /\ tasks' = [tasks EXCEPT ![running].at = "check"]
    /\ UNCHANGED <<script, mainPc, proc, panic, current, other, queue, running, now, pollLog, sent, out>>

\* if Instant::now() >= self.when { Poll::Ready(()) } else { Poll::Pending }.
\* Ready: the await is over and the Delay dropped.  Pending: an awaiting task
\* returns Pending from Task::poll; a task that polled once hands the future
\* over and goes on.
StepDelayCheck ==
    /\ AtDelay(running, "check")
    /\ LET t == running
           d == tasks[t].delay IN
        IF DelayReady(now, delays[d].when)
            THEN /\ delays' = [delays EXCEPT ![d].ready = TRUE]
                 /\ tasks' = [tasks EXCEPT ![t].pc = @ + 1, ![t].at = "op",
                                           ![t].delay = 0]
                 /\ UNCHANGED running
            ELSE IF Op(t).op = "poll_once"
            THEN /\ delays' = [delays EXCEPT ![d].pendings = @ + 1,
                                             ![d].pender = t,
                                             ![d].box = "sent"]
                 /\ tasks' = [tasks EXCEPT ![t].pc = @ + 1, ![t].at = "op",
                                           ![t].delay = 0]
                 /\ UNCHANGED running
            ELSE /\ delays' = [delays EXCEPT ![d].pendings = @ + 1,
                                             ![d].pender = t]
                 /\ tasks' = PollReturn([tasks EXCEPT ![t].at = "poll"], t)
                 /\ running' = 0
    /\ UNCHANGED <<script, mainPc, proc, panic, current, other, queue, now, pollLog, sent, out>>

\* a task takes over the future another task polled and handed over, and
\* awaits it; with nothing handed over it goes on
StepTake ==
    /\ AtOp(running, "take")
    /\ LET t == running
           sentBoxes == {d \in 1..Len(delays) : delays[d].box = "sent"} IN
        IF sentBoxes = {}
            THEN /\ tasks' = [tasks EXCEPT ![t].pc = @ + 1]
                 /\ UNCHANGED delays
            ELSE LET d == CHOOSE b \in sentBoxes : TRUE IN
                 /\ delays' = [delays EXCEPT ![d].box = "taken"]
                 /\ tasks' = [tasks EXCEPT ![t].delay = d, ![t].at = "poll"]
    /\ UNCHANGED <<script, mainPc, proc, panic, current, other, queue, running, now, pollLog, sent, out>>

(***************************************************************************)
(* The timer thread of a Delay                                             *)
(***************************************************************************)
\* a timer thread that does not wait for the deadline
TimerExpireEarly(d) ==
    /\ Alive /\ delays[d].thread = "spawned"
    /\ delays' = [delays EXCEPT ![d].thread = "awake"]
    /\ UNCHANGED <<script, mainPc, proc, panic, current, other, tasks, queue, running, now, pollLog, sent, out>>

\* let now = Instant::now(); if now < when { thread::sleep(when - now) }:
\* the thread gets past this point only once the clock has reached `when`
TimerExpire(d) ==
    /\ Alive /\ delays[d].thread = "spawned"
    /\ now >= delays[d].when
    /\ delays' = [delays EXCEPT ![d].thread = "awake"]
    /\ UNCHANGED <<script, mainPc, proc, panic, current, other, tasks, queue, running, now, pollLog, sent, out>>

\* a timer thread that reads the waker without waiting for the guard
TimerLockNoWait(d) ==
    /\ Alive /\ delays[d].thread = "awake"
    /\ delays' = [delays EXCEPT ![d].thread = "locked", ![d].lock = "timer"]
    /\ UNCHANGED <<script, mainPc, proc, panic, current, other, tasks, queue, running, now, pollLog, sent, out>>

\* let waker = waker.lock().unwrap();
TimerLock(d) ==
    /\ Alive /\ delays[d].thread = "awake"
    /\ delays[d].lock = "free"
    /\ delays' = [delays EXCEPT ![d].thread = "locked", ![d].lock = "timer"]
    /\ UNCHANGED <<script, mainPc, proc, panic, current, other, tasks, queue, running, now, pollLog, sent, out>>

\* waker.wake_by_ref(); the guard is dropped, the thread ends
TimerWake(d) ==
    /\ Alive /\ delays[d].thread = "locked"
    /\ queue' = WakeByRef(queue, delays[d].waker)
    /\ delays' = [delays EXCEPT ![d].thread = "done", ![d].lock = "free",
                                ![d].wakes = @ + 1,
                                ![d].woke = delays[d].waker,
                                ![d].slot = Len(sent) + 1]
    /\ sent' = Append(sent, delays[d].waker)
    /\ UNCHANGED <<script, mainPc, proc, panic, current, other, tasks, running, now, pollLog, out>>

Timer ==
    \E d \in 1..Len(delays) :
        TimerExpire(d) \/ TimerLock(d) \/ TimerWake(d)

(***************************************************************************)
(* A thread on which run() was never called invokes spawn                  *)
(***************************************************************************)
OtherSpawn ==
    /\ Alive /\ other = "idle"
    /\ LET r == SpawnFree("other", tasks, queue, Hello) IN
        /\ other' = IF r.panic THEN "panicked" ELSE "done"
        /\ tasks' = r.tasks
        /\ queue' = r.queue
        /\ sent' = IF r.panic THEN sent ELSE Append(sent, Len(tasks) + 1)
    /\ UNCHANGED <<script, mainPc, proc, panic, current, running, delays, now, pollLog, out>>

(***************************************************************************)
(* The clock                                                               *)
(***************************************************************************)
Tick ==
    /\ Alive /\ now < Horizon
    /\ now' = now + 1
    /\ UNCHANGED <<script, mainPc, proc, panic, current, other, tasks, queue, running,
                   delays, pollLog, sent, out>>

Next ==
    \/ MainSpawn
    \/ RunStart
    \/ RunRecv
    \/ StepSpawn
    \/ StepEmit
    \/ StepExit
    \/ StepFinish
    \/ StepDelayNew
    \/ StepDelayFirst
    \/ StepDelayLock
    \/ StepDelayCompare
    \/ StepDelayCheck
    \/ StepTake
    \/ Timer
    \/ OtherSpawn
    \/ Tick

Spec == Init /\ [][Next]_vars

(***************************************************************************)
(* Fair scheduling: the main thread, every timer thread and the clock      *)
(* each keep taking steps while they can.                                  *)
(***************************************************************************)
MaxDelays == MaxSpawns + 2
DelayIds == 1..MaxDelays
MaxTasks == MaxSpawns + 3
TaskIds == 1..MaxTasks

MainThread ==
    \/ MainSpawn \/ RunStart \/ RunRecv \/ StepSpawn \/ StepEmit \/ StepExit
    \/ StepFinish \/ StepDelayNew \/ StepDelayFirst \/ StepDelayLock
    \/ StepDelayCompare \/ StepDelayCheck \/ StepTake

TimerThread(d) ==
    d <= Len(delays) /\ (TimerExpire(d) \/ TimerLock(d) \/ TimerWake(d))

FairSpec ==
    /\ Spec
    /\ WF_vars(MainThread)
    /\ \A d \in DelayIds : WF_vars(TimerThread(d))
    /\ WF_vars(Tick)

(***************************************************************************)
(* Vocabulary of the properties                                            *)
(***************************************************************************)
Seen(sq, x) == \E i \in 1..Len(sq) : sq[i] = x

Before(sq, x, y) == \E i, j \in 1..Len(sq) : i < j /\ sq[i] = x /\ sq[j] = y

\* the number of tasks main handed to mini_tokio.spawn
NInit == Cardinality({t \in 1..Len(tasks) : tasks[t].src = "mini_tokio"})

\* the timer thread of d has got past its wait
Expired(d) == delays[d].thread \in {"awake", "locked", "done"}

\* t returned Pending from a Delay and is not being polled
Suspended(t) == tasks[t].at = "poll" /\ running # t

\* main spawned a root that spawns a timed child (task 2) and an immediate
\* child (task 3), with a first-child duration > 0
RootRun == Len(tasks) >= 3 /\ tasks[1].body \in {Root(t1) : t1 \in 1..MaxDur}

\* the program of main itself
RefRun == Len(tasks) >= 1 /\ tasks[1].body = MainRoot

\* a Delay polled by task t returned Pending; a Delay returns Pending on
\* every poll before the one that returns Ready, so its first poll did
PendingFirst(t) == \E d \in 1..Len(delays) : delays[d].pender = t

(***************************************************************************)
(* C1                                                                      *)
(***************************************************************************)
C1_Safe(d) ==
    /\ delays[d].wakes <= 1
    /\ Expired(d) => now >= delays[d].when
    /\ delays[d].wakes = 1 /\ delays[d].pendings > 0
            => delays[d].woke \in {delays[d].pender, delays[d].poller}

C2_NoHungTask ==
    \A t \in TaskIds :
        /\ (t <= Len(tasks) /\ Suspended(t)) ~> (running = t \/ proc = "exited")
        /\ (t <= Len(tasks))
                ~> (proc = "exited" \/ (t <= Len(tasks) /\ tasks[t].done))

(***************************************************************************)
(* C3                                                                      *)
(***************************************************************************)
\* C3 as stated, read at the end of a run: every task spawned before run()
\* has been received by the loop.
C3_AllResumed ==
    proc = "exited" => \A t \in 1..NInit : Seen(pollLog, t)

\* C3 (amended): the first polls of the loop are the tasks spawned before
\* run(), in spawn order, and each of them is polled unless a task polled
\* before it exits the process.
C3_InitialTasksFifo ==
    /\ [](\A k \in 1..Len(pollLog) : k <= NInit => pollLog[k] = k)
    /\ \A t \in TaskIds :
            (mainPc = "loop" /\ t <= NInit)
                ~> (Seen(pollLog, t) \/ proc = "exited")

C3_Witness ==
    /\ NInit >= 2
    /\ Len(pollLog) >= NInit
    /\ mainPc = "loop"

C5_WakeAfterCompletionSafe == proc # "panicked"

C8_ZeroDurationReadyAtOnce ==
    \A d \in 1..Len(delays) : delays[d].dur = 0 => delays[d].pendings = 0

C8_Witness ==
    \E d \in 1..Len(delays) : delays[d].dur = 0 /\ delays[d].ready

(***************************************************************************)
(* C9                                                                      *)
(***************************************************************************)
\* C9: spawn on a thread without a registration panics that thread and
\* allocates and enqueues no task.
C9_SpawnWithoutRegistrationPanics ==
    /\ other \in {"idle", "panicked"}
    /\ \A t \in 1..Len(tasks) : tasks[t].src # "other"
    /\ \A i \in 1..Len(queue) : tasks[queue[i]].src # "other"

C9_Witness ==
    other = "panicked" /\ current["main"] /\ ~current["other"]

(***************************************************************************)
(* C10                                                                     *)
(***************************************************************************)
\* C10: a task's future is locked only while the loop is inside that task's
\* poll, so the try_lock of Task::poll never fails.
C10_TryLockNeverFails ==
    /\ panic # "try_lock"
    /\ \A t \in 1..Len(tasks) : tasks[t].locked => running = t

C10_Witness ==
    \E t \in 1..Len(tasks) : running = t /\ Seen(queue, t)

(***************************************************************************)
(* C11                                                                     *)
(***************************************************************************)
\* a harness whose future has not been polled: the state Task::spawn made
Unstarted(t) ==
    /\ tasks[t].pc = 1 /\ tasks[t].at = "op" /\ tasks[t].delay = 0
    /\ ~tasks[t].done /\ ~tasks[t].locked

\* C11: a step that allocates a harness (mini_tokio.spawn or spawn inside a
\* task) appends exactly one entry, for the new harness, at the back of the
\* queue, leaves the harness unstarted, does not change which task the loop
\* is polling, what the loop has received, any Delay, the output or any other
\* harness (the spawning task only moves past its spawn statement); and a
\* harness the loop has not yet received is still unstarted.
C11_SpawnOnlyEnqueues ==
    /\ [][Len(tasks') # Len(tasks) =>
            /\ Len(tasks') = Len(tasks) + 1
            /\ queue' = Append(queue, Len(tasks) + 1)
            /\ tasks'[Len(tasks) + 1].pc = 1
            /\ tasks'[Len(tasks) + 1].at = "op"
            /\ ~tasks'[Len(tasks) + 1].done
            /\ ~tasks'[Len(tasks) + 1].locked
            /\ running' = running /\ pollLog' = pollLog
            /\ delays' = delays /\ out' = out /\ proc' = proc
            /\ \A t \in 1..Len(tasks) :
                    IF t = running /\ tasks'[Len(tasks) + 1].src = "main"
                        THEN tasks'[t] = [tasks[t] EXCEPT !.pc = @ + 1]
                        ELSE tasks'[t] = tasks[t]]_vars
    /\ [](\A t \in TaskIds :
            t <= Len(tasks) /\ ~Seen(pollLog, t) => Unstarted(t))

\* a task spawned inside a poll waits in the queue behind another entry,
\* unstarted, while the spawning task is still being polled
C11_Witness ==
    /\ running # 0
    /\ Len(queue) >= 2
    /\ \E t \in 1..Len(tasks) :
            /\ tasks[t].src = "main" /\ queue[Len(queue)] = t
            /\ ~Seen(pollLog, t) /\ Unstarted(t)
            /\ tasks[running].pc > 1

(***************************************************************************)
(* C12                                                                     *)
(***************************************************************************)
Count(sq, x) == Cardinality({i \in 1..Len(sq) : sq[i] = x})

\* how many times a waker of task t has been invoked
WakesOf(t) ==
    Cardinality({d \in 1..Len(delays) :
                    delays[d].wakes > 0 /\ delays[d].woke = t})

\* a step in which the timer thread of Delay d invokes the stored waker
Woken(d) == delays'[d].wakes = delays[d].wakes + 1

\* the most entries that can ever be sent: one per spawn and one per Delay
SendIds == 1..(MaxTasks + MaxDelays)

\* every invocation of a waker appends one entry for its task and changes
\* nothing but the timer thread's own state
C12_WakeFrame ==
    [][\A d \in 1..Len(delays) :
            Woken(d) =>
                /\ queue' = Append(queue, delays[d].waker)
                /\ tasks' = tasks /\ running' = running
                /\ pollLog' = pollLog /\ out' = out
                /\ proc' = proc /\ mainPc' = mainPc /\ now' = now
                /\ \A e \in 1..Len(delays) : e # d => delays'[e] = delays[e]]_vars

\* entries are neither merged nor lost: the entries of a task that the loop
\* has received or that still wait are one for its spawn and one per wake
C12_Conserved ==
    \A t \in 1..Len(tasks) :
        Count(pollLog, t) + Count(queue, t) = 1 + WakesOf(t)

C13_ResumedInSendOrder == sent = pollLog \o queue

\* the loop has received entries of all three producers: a task spawned
\* before run(), a task spawned inside a poll, and a task a timer woke
C13_Witness ==
    /\ \E t \in 1..Len(tasks) : tasks[t].src = "mini_tokio" /\ Seen(pollLog, t)
    /\ \E t \in 1..Len(tasks) : tasks[t].src = "main" /\ Seen(pollLog, t)
    /\ \E t \in 1..Len(tasks) : WakesOf(t) > 0 /\ Count(pollLog, t) >= 2

(***************************************************************************)
(* C14                                                                     *)
(***************************************************************************)
\* one timer thread per polled Delay, none for a Delay never polled; at most
\* one invocation, made by that thread, and none before the deadline
C14_Safe(d) ==
    /\ delays[d].launched = IF delays[d].polls > 0 THEN 1 ELSE 0
    /\ delays[d].wakes <= 1
    /\ delays[d].wakes = 1 => delays[d].launched = 1 /\ now >= delays[d].when
    /\ Expired(d) => now >= delays[d].when

C15_StoredWakerIsLastPoller ==
    /\ [](\A d \in DelayIds :
            d <= Len(delays) /\ delays[d].polls > 0 /\ delays[d].lock # "poll"
                => delays[d].waker = delays[d].poller)
    /\ [][\A d \in 1..Len(delays) :
            Woken(d) => /\ delays'[d].woke = delays[d].poller
                        /\ queue' = Append(queue, delays[d].poller)]_vars

\* a Delay first polled by one task was handed to another, which polled it,
\* and the timer thread then woke that second task
C15_Witness ==
    \E d \in 1..Len(delays) :
        /\ delays[d].box = "taken" /\ delays[d].wakes = 1
        /\ delays[d].pendings >= 2
        /\ tasks[delays[d].woke].body = Taker
        /\ delays[d].woke # 1

(***************************************************************************)
(* C16                                                                     *)
(***************************************************************************)
\* the loop is in recv() on an empty channel that still has a Sender
LoopWaiting ==
    /\ Alive /\ mainPc = "loop" /\ running = 0
    /\ queue = <<>> /\ Senders > 0

\* C16: the loop ends only in a step that finds the channel empty with every
\* Sender dropped; while an entry waits and no task is being polled the
\* loop can receive; and while the channel is empty and a Sender exists the
\* loop's thread can take no step: it blocks in recv() and run() does not
\* return.
C16_LoopEndsOnlyOnDisconnect ==
    /\ [][mainPc = "loop" /\ mainPc' # "loop"
            => queue = <<>> /\ Senders = 0 /\ mainPc' = "returned"]_vars
    /\ [](Alive /\ mainPc = "loop" /\ running = 0 /\ queue # <<>>
            => ENABLED RunRecv)
    /\ [](LoopWaiting => ~ENABLED MainThread)

\* the loop has polled a task, which is now suspended on a Delay whose timer
\* thread still holds a waker, and waits on the empty channel
C16_Witness ==
    /\ LoopWaiting
    /\ pollLog # <<>>
    /\ \E d \in 1..Len(delays) :
            delays[d].thread = "spawned" /\ delays[d].waker \in LiveTasks

(***************************************************************************)
(* C17                                                                     *)
(***************************************************************************)
\* the task ids spawned by spawn() on the loop's thread
Nested == {c \in 1..Len(tasks) : tasks[c].src = "main"}

\* C17: spawn() inside a task being polled finds the sender run() stored in
\* CURRENT on that thread and appends the new harness behind every entry
\* already in the queue, without touching the poll under way; the loop
\* receives the new harness only in a later receive than the one that
\* started the spawning poll, and a receive happens only when no poll is
\* under way.
C17_NestedSpawnQueuesBehind ==
    /\ [][Len(tasks') > Len(tasks) /\ running # 0 =>
            /\ current["main"] /\ mainPc = "loop"
            /\ pollLog # <<>> /\ pollLog[Len(pollLog)] = running
            /\ queue' = Append(queue, Len(tasks) + 1)
            /\ tasks'[Len(tasks) + 1].src = "main"
            /\ tasks'[Len(tasks) + 1].born = Len(pollLog)
            /\ running' = running /\ pollLog' = pollLog]_vars
    /\ [](\A c \in TaskIds :
            c <= Len(tasks) /\ c \in Nested =>
                /\ tasks[c].born > 0
                /\ \A i \in 1..Len(pollLog) :
                        pollLog[i] = c => i > tasks[c].born
                /\ Len(pollLog) = tasks[c].born => Unstarted(c))
    /\ [][pollLog' # pollLog => running = 0]_vars

\* during one poll the task has spawned a second child: it is queued behind
\* the first, and neither has been received yet
C17_Witness ==
    /\ running # 0
    /\ \E c, e \in Nested :
            /\ c # e
            /\ tasks[c].born = Len(pollLog) /\ tasks[e].born = Len(pollLog)
            /\ Len(queue) >= 2
            /\ queue[Len(queue) - 1] = c /\ queue[Len(queue)] = e

(***************************************************************************)
(* C18                                                                     *)
(***************************************************************************)
\* C18: the queue changes only when the loop takes its head, when a spawn
\* appends the harness it has just allocated, or when a timer thread's wake
\* appends the task of the waker it invokes; so the loop has received a task
\* at most once for its spawn and once per invocation of a waker of it, and
\* a task no waker of which was invoked has been received at most once.
C18_QueuedOnlyBySpawnOrWake ==
    /\ [][queue' # queue =>
            \/ /\ queue # <<>> /\ queue' = Tail(queue)
               /\ pollLog' = Append(pollLog, Head(queue))
            \/ /\ Len(tasks') = Len(tasks) + 1
               /\ queue' = Append(queue, Len(tasks) + 1)
            \/ \E d \in 1..Len(delays) :
                    Woken(d) /\ queue' = Append(queue, delays[d].waker)]_vars
    /\ [](\A t \in TaskIds :
            t <= Len(tasks) => Count(pollLog, t) <= 1 + WakesOf(t))

\* one task has completed and another is suspended on a Delay whose timer
\* has not fired; each was received once and neither is in the queue, while
\* the loop has gone on to receive a later entry
C18_Witness ==
    \E t, u \in 1..Len(tasks) :
        /\ Suspended(t) /\ WakesOf(t) = 0 /\ Count(pollLog, t) = 1
        /\ tasks[u].done /\ Count(pollLog, u) = 1
        /\ ~Seen(queue, t) /\ ~Seen(queue, u)
        /\ Len(pollLog) >= 3 /\ running = 0

(***************************************************************************)
(* C19                                                                     *)
(***************************************************************************)
\* the tasks whose future is locked by a Task::poll under way
BeingPolled == {t \in 1..Len(tasks) : tasks[t].locked}

\* C19: at most one task is being polled at any time, and it is the one the
\* loop received last; a step that appends to the queue while a task is
\* being polled appends one entry at the back, leaves the poll under way
\* where it is (a wake changes no task at all, a nested spawn only moves the
\* polled task past its spawn statement), and every entry ever sent has
\* either been received or still waits.
C19_OnePollConcurrentAppends ==
    /\ [](/\ Cardinality(BeingPolled) <= 1
          /\ running # 0 =>
                BeingPolled = {running} /\ pollLog[Len(pollLog)] = running
          /\ Len(sent) = Len(pollLog) + Len(queue))
    /\ [][running # 0 /\ Len(queue') > Len(queue) =>
            /\ running' = running
            /\ tasks'[running].locked
            /\ tasks'[running].at = tasks[running].at
            /\ \E x \in 1..Len(tasks') : queue' = Append(queue, x)
            /\ (\E d \in 1..Len(delays) : Woken(d)) => tasks' = tasks]_vars

\* a timer thread has appended an entry for a task while that task was
\* being polled for the first time, and the poll is still under way
C19_Witness ==
    \E t \in 1..Len(tasks) :
        /\ running = t /\ Count(pollLog, t) = 1
        /\ WakesOf(t) = 1 /\ Count(queue, t) = 1

(***************************************************************************)
(* C20                                                                     *)
(***************************************************************************)
\* Delay::poll is between waker.lock() and the end of the if-let block
PollHolds(d) ==
    running # 0 /\ tasks[running].at = "locked" /\ tasks[running].delay = d

\* the timer thread is between waker.lock() and the end of its closure
TimerHolds(d) == delays[d].thread = "locked"

C20_Exclusive(d) ==
    /\ ~(PollHolds(d) /\ TimerHolds(d))
    /\ delays[d].lock = "poll" <=> PollHolds(d)
    /\ delays[d].lock = "timer" <=> TimerHolds(d)
    /\ Alive /\ PollHolds(d) => ENABLED StepDelayCompare
    /\ Alive /\ TimerHolds(d) => ENABLED TimerWake(d)

\* C20: a poll and the timer thread of a Delay never hold the guard of its
\* stored waker together; once the timer thread exists the stored waker
\* changes only in a step of the poll that holds the guard, and the timer
\* thread invokes it only while holding the guard, so it invokes the waker
\* stored before a replacement or the one stored after; whoever holds the
\* guard can go on and release it, and a thread waiting for the guard gets
\* it: the timer thread ends and the poll reaches its readiness test, unless
\* the process ends first.
C20_WakerGuarded ==
    /\ [](\A d \in DelayIds : d <= Len(delays) => C20_Exclusive(d))
    /\ [][\A d \in 1..Len(delays) :
            /\ delays'[d].waker # delays[d].waker =>
                    \/ delays[d].thread = "none" /\ delays[d].waker = 0
                    \/ PollHolds(d) /\ delays[d].lock = "poll"
            /\ Woken(d) =>
                    /\ TimerHolds(d) /\ delays[d].lock = "timer"
                    /\ delays'[d].woke = delays[d].waker
                    /\ delays'[d].waker = delays[d].waker]_vars
    /\ \A d \in DelayIds :
            /\ (d <= Len(delays) /\ delays[d].thread = "awake")
                    ~> (proc # "running"
                            \/ (d <= Len(delays) /\ delays[d].thread = "done"))
            /\ (d <= Len(delays) /\ delays[d].lock # "free")
                    ~> (proc # "running"
                            \/ (d <= Len(delays) /\ delays[d].lock = "free"))

\* the timer thread has slept to the deadline and wants the guard while a
\* poll of the same Delay holds it
C20_Witness ==
    \E d \in 1..Len(delays) :
        PollHolds(d) /\ delays[d].thread = "awake" /\ delays[d].lock = "poll"

(***************************************************************************)
(* C21                                                                     *)
(***************************************************************************)
\* the first poll of Delay d returned Ready
ReadyAtFirst(d) ==
    delays[d].ready /\ delays[d].polls = 1 /\ delays[d].pendings = 0

\* the loop has received the entry the timer thread of Delay d made
WakeReceived(d) ==
    /\ delays[d].wakes = 1
    /\ Len(pollLog) >= delays[d].slot
    /\ pollLog[delays[d].slot] = delays[d].woke

LoopIdle ==
    /\ LoopWaiting
    /\ \A d \in 1..Len(delays) : delays[d].thread \in {"none", "done"}

\* C22: while run() executes, CURRENT of its thread holds a sender and is
\* never cleared, so with MiniTokio.sender at least two Senders are alive,
\* recv() never fails and run() never returns; and once the channel is empty
\* with no timer thread left, it stays so: the loop's thread can take no
\* step, then or ever after.
C22_RunNeverReturns ==
    /\ [](mainPc # "returned")
    /\ [](mainPc = "loop" =>
            current["main"] /\ Senders >= 2 /\ ~RecvFails(queue, Senders))
    /\ [][current["main"] => current'["main"]]_vars
    /\ [](LoopIdle => ~ENABLED MainThread)
    /\ [][LoopIdle => LoopIdle']_vars

\* every task has completed, no Arc<Task> is left and no timer thread
\* remains, yet the loop still waits on the channel
C22_Witness ==
    /\ LoopIdle
    /\ tasks # <<>> /\ \A t \in 1..Len(tasks) : tasks[t].done
    /\ LiveTasks = {} /\ Senders = 2
====
